---- MODULE Spec2Model ----
(***************************************************************************)
(* Sandboxed execution engine of ai-agent-extension (src/agent/executor.py)*)
(*                                                                         *)
(* The engine runs on one asyncio event loop: the code between two points  *)
(* at which a coroutine really suspends is one atomic step.  A runner      *)
(* suspends only after the child has been forked (subprocess creation      *)
(* forks synchronously inside create_subprocess_exec), so dispatching,     *)
(* writing the source file and spawning are one step, and the return of    *)
(* communicate, the result and the finally clause are another.  Children   *)
(* run concurrently with the loop: opening the source file and exiting     *)
(* are steps of their own.                                                 *)
(***************************************************************************)
EXTENDS Integers, Sequences, FiniteSets, TLC

(* ------------------------------ bounds --------------------------------- *)
\* number of execute() calls that can be in flight at once
NumCalls == 2
\* longest command text drawn in ShellSpec
MaxCmdLen == 4

Calls == 1..NumCalls

(* --------------------------- program constants ------------------------- *)
\* CodeExecutor.supported_languages (its keys)
supported_languages == {"python", "javascript", "shell"}

\* the fixed file name each runner uses inside the workspace
script_py == "script.py"
script_js == "script.js"
FileNames == {script_py, script_js}

\* texts are sequences of characters
Whitespace == {" "}
Chars == {" ", "l", "s"}

\* _execute_shell: allowed_commands
allowed_commands ==
    { <<"e","c","h","o">>, <<"l","s">>, <<"p","w","d">>,
      <<"w","h","o","a","m","i">>, <<"d","a","t","e">> }

(* ------------------------------ inputs --------------------------------- *)
\* all texts over Chars of length at most n
RECURSIVE TextsUpTo(_)
TextsUpTo(n) ==
    IF n = 0 THEN {<<>>}
    ELSE LET shorter == TextsUpTo(n - 1)
         IN  shorter \cup {Append(t, c) : t \in {u \in shorter : Len(u) = n - 1}, c \in Chars}

\* command texts for the shell runner
Commands == TextsUpTo(MaxCmdLen)

\* source bodies handed to execute(): two distinct bodies, the first of which
\* is also an allowed shell command and the second a rejected one
Sources == { <<"l","s">>, <<"s">> }

\* language arguments: supported names, a differently cased one, an unknown one
LanguageValues == {"python", "javascript", "shell", "Shell", "ruby"}

(* ------------------------- values of the model ------------------------- *)
None == "None"
\* a file that does not exist / a child that has not opened its script yet
Absent == <<"ABSENT">>
Unread == <<"UNREAD">>
Missing == <<"ENOENT">>
NoProc == [alive |-> FALSE, ran |-> <<"NOPROC">>, limits |-> 0]
NoInst == [packages |-> <<>>, language |-> "none", alive |-> FALSE, limits |-> 0]
NoRet == [op |-> "none"]

\* package lists and language arguments handed to install_dependencies()
PackageLists == { <<>>, <<"p", "q">> }
InstallLanguages == {"python", "javascript", "ruby"}

\* what a child can report when it exits
ExitCodes == {0, 1}
StderrTexts == {"", "diag"}

VARIABLES
    code_executor_dir,  \* CodeExecutor.workspace_dir
    workspace_dir,      \* Executor.workspace_dir
    disk,               \* the directories that exist
    files,              \* content of each file of code_executor_dir, or Absent
    node,               \* whether the node binary is on the host
    shutdown,           \* Executor.cleanup() has been called
    pc,                 \* per call: idle, or await (suspended in communicate)
    lang,               \* per call: the language argument
    code,               \* per call: the code argument
    steps,              \* per call: the steps its runner has taken so far, in order
    proc,               \* per call: the child process it spawned
    inst,               \* the install_dependencies() call in flight, if any
    ret,                \* the value the last step returned at the engine boundary, if it returned one
    escaped             \* an exception has propagated out of the engine

vars == <<code_executor_dir, workspace_dir, disk, files, node, shutdown,
          pc, lang, code, steps, proc, inst, ret, escaped>>

(* --------------------------- pure functions ---------------------------- *)
\* str.lower() on the language values the model draws
lower(l) == CASE l = "Shell" -> "shell" [] OTHER -> l

\* str.split(): the maximal runs of non-whitespace characters, in order
RECURSIVE SplitFrom(_, _, _, _)
SplitFrom(s, k, cur, acc) ==
    IF k > Len(s)
    THEN IF cur = <<>> THEN acc ELSE Append(acc, cur)
    ELSE IF s[k] \in Whitespace
         THEN SplitFrom(s, k + 1, <<>>, IF cur = <<>> THEN acc ELSE Append(acc, cur))
         ELSE SplitFrom(s, k + 1, Append(cur, s[k]), acc)

split(s) == SplitFrom(s, 1, <<>>, <<>>)

\* a check that looks at the command word only
unsafe_first(c) == split(c) # <<>> /\ split(c)[1] \notin allowed_commands

\* _execute_shell: any(cmd not in allowed_commands for cmd in code.split())
unsafe(c) == \E k \in 1..Len(split(c)) : split(c)[k] \notin allowed_commands

\* what a runner hands back: an ExecutionResult, or a raised exception
ExecutionResult(success, output, error) ==
    [kind |-> "result", success |-> success, output |-> output, error |-> error,
     exc |-> None]

Raise(exc, msg) ==
    [kind |-> "raise", success |-> FALSE, output |-> <<>>, error |-> msg, exc |-> exc]

\* an execute_code without its try
execute_code_bare(outcome) == outcome

\* CodeExecutor.execute_code: try: return await executor(code)
\*                            except Exception as e: ExecutionResult(False, "", str(e))
execute_code_try(outcome) ==
    IF outcome.kind = "raise"
    THEN ExecutionResult(FALSE, <<>>, outcome.error)
    ELSE outcome

\* ExecutionResult.to_dict
to_dict(r) ==
    [success |-> r.success, output |-> r.output, error |-> r.error,
     time |-> 0, memory |-> 0]

\* a runner without its finally clause
finally_nothing(fs, f) == fs

\* the finally clause of the python and javascript runners:
\* if temp_file.exists(): temp_file.unlink()
finally_unlink(fs, f) == IF fs[f] # Absent THEN [fs EXCEPT ![f] = Absent] ELSE fs

\* Path.write_text: create or truncate the file and write the text
write_text(fs, f, c) == [fs EXCEPT ![f] = c]

\* runners that all use one file name
temp_file_shared(runner) == script_py

\* the file a runner uses: Path(self.workspace_dir) / fixed name
temp_file(runner) == IF runner = "python" THEN script_py ELSE script_js

\* str(e) of the faults the host can raise
ENOENT == "[Errno 2] No such file or directory"
EAGAIN == "[Errno 11] Resource temporarily unavailable"

\* how often _apply_limits runs in a child forked with preexec_fn set to it
\* (the module imports resource, so the platform is never win32), and in a
\* child forked with no preexec_fn
preexec_apply_limits == 1
no_preexec_fn == 0

\* a freshly forked child of a runner: preexec_fn=self._apply_limits
Running == [alive |-> TRUE, ran |-> Unread, limits |-> preexec_apply_limits]

\* a freshly forked package manager: create_subprocess_exec with no preexec_fn
Installer(packages, language) ==
    [packages |-> packages, language |-> language, alive |-> TRUE,
     limits |-> no_preexec_fn]

(* ------------------------------ Init ----------------------------------- *)
\* Executor.__init__: CodeExecutor(workspace_dir) takes the given directory or
\* makes a temporary one, and then Executor takes the given directory or makes
\* a second temporary one.  A given directory is not created by the engine.
Init ==
    /\ \E given \in BOOLEAN, present \in BOOLEAN :
          IF given
          THEN /\ code_executor_dir = "given"
               /\ workspace_dir = "given"
               /\ disk = IF present THEN {"given"} ELSE {}
          ELSE /\ code_executor_dir = "mkdtemp1"
               /\ workspace_dir = "mkdtemp2"
               /\ disk = {"mkdtemp1", "mkdtemp2"}
    /\ files = [f \in FileNames |-> Absent]
    /\ node \in BOOLEAN
    /\ shutdown = FALSE
    /\ pc = [i \in Calls |-> "idle"]
    /\ lang = [i \in Calls |-> "none"]
    /\ code = [i \in Calls |-> <<>>]
    /\ steps = [i \in Calls |-> <<>>]
    /\ proc = [i \in Calls |-> NoProc]
    /\ inst = NoInst
    /\ ret = NoRet
    /\ escaped = FALSE

(* ----------------------------- execute --------------------------------- *)
\* a lookup that falls back to a runner when the language is unknown
dispatch_default(language) ==
    IF lower(language) \in supported_languages THEN lower(language) ELSE "shell"

\* self.supported_languages.get(language.lower()): the runner, or none
dispatch(language) ==
    IF lower(language) \in supported_languages THEN lower(language) ELSE "none"

\* the steps of a runner, in the order of its statements, up to the point
\* where it suspends in communicate(): the shell runner writes no file
runner_begins(runner) ==
    IF runner = "shell" THEN <<"spawn">> ELSE <<"write", "spawn">>

\* a runner that removes its file before it awaits its child
runner_ends_early(runner) ==
    IF runner = "shell" THEN <<"resolved">> ELSE <<"cleanup", "resolved">>

\* the steps of a runner once communicate() or its deadline has resolved:
\* the python and javascript runners end with their finally clause
runner_ends(runner) ==
    IF runner = "shell" THEN <<"resolved">> ELSE <<"resolved", "cleanup">>

\* the steps of a runner that fails before it has a child: write_text raised
\* (the finally clause still runs), or the subprocess could not be created
runner_fails_write(runner) == <<"write_failed", "cleanup">>
runner_fails_spawn(runner) ==
    IF runner = "shell" THEN <<"spawn_failed">> ELSE <<"write", "spawn_failed", "cleanup">>

\* what a call learns from process.communicate() and process.returncode
NoExit == [rc |-> -1, stdout |-> <<>>, stderr |-> ""]
Exit(rc, stdout, stderr) == [rc |-> rc, stdout |-> stdout, stderr |-> stderr]

\* a result that counts output on stderr as a failure
normal_result_strict(rc, stdout, stderr) ==
    ExecutionResult(rc = 0 /\ stderr = "", stdout, IF stderr # "" THEN stderr ELSE None)

\* ExecutionResult(success=process.returncode == 0, output=stdout.decode(),
\*                 error=stderr.decode() if stderr else None)
normal_result(rc, stdout, stderr) ==
    ExecutionResult(rc = 0, stdout, IF stderr # "" THEN stderr ELSE None)

(* ----------------------------- dispatcher ------------------------------ *)
\* OperationType: the kinds whose handlers build a prompt, and all kinds
PromptKinds == {"suggest", "edit", "test"}
OperationType == PromptKinds \cup {"install", "execute"}

\* what the handler registered for a kind in AIAgent._operation_handlers
\* calls on the agent's collaborators
handler_calls(kind) ==
    CASE kind \in PromptKinds -> {"provider.generate_response"}
      [] kind = "install" -> {"executor.install_dependencies"}
      [] kind = "execute" -> {"executor.execute_code"}

\* OperationResult(success=..., content=..., errors=[...]), and a handler that
\* an exception leaves
OperationResult(success, content, errors) ==
    [raised |-> FALSE, success |-> success, content |-> content, errors |-> errors]
HandlerRaises(msg) ==
    [raised |-> TRUE, success |-> FALSE, content |-> "", errors |-> <<msg>>]

\* _handle_suggest, _handle_edit, _handle_test: the provider answers or raises
handle_prompt(answered) ==
    IF answered THEN OperationResult(TRUE, "response", <<>>)
    ELSE HandlerRaises("provider error")

\* _handle_execute: OperationResult(success=result.get("success", False),
\*                                  content=result.get("output", ""))
handle_execute(raised, result) ==
    IF raised THEN HandlerRaises(result.error)
    ELSE OperationResult(result.success, result.output, <<>>)

\* _handle_install: the same, from the map of install_dependencies
handle_install(result) == OperationResult(result.success, result.output, <<>>)

\* an execute_operation without its try
execute_operation_bare(handled) == handled

\* AIAgent.execute_operation: try: return await handler(operation)
\* except Exception as e: OperationResult(success=False, content="",
\*                                         errors=[f"Operation failed: {str(e)}"])
execute_operation_try(handled) ==
    IF handled.raised
    THEN OperationResult(FALSE, "", <<"Operation failed: " \o handled.errors[1]>>)
    ELSE handled

\* execute_operation for a suggest, edit or test request
Prompt(kind) ==
    /\ kind \in PromptKinds
    /\ \E answered \in BOOLEAN :
         LET operation == execute_operation_try(handle_prompt(answered)) IN
         /\ ret' = [op |-> "operation", kind |-> kind, calls |-> handler_calls(kind),
                    provider_raised |-> ~answered, operation |-> operation]
         /\ escaped' = (escaped \/ operation.raised)
    /\ UNCHANGED <<code_executor_dir, workspace_dir, disk, files, node, shutdown,
                   pc, lang, code, steps, proc, inst>>

\* Executor.execute_code returns (or an exception leaves it) for call i
Returns(i, language, c, outcome, p, overdue, child_alive, exit, log) ==
    /\ ret' = [op |-> "execute", language |-> language, code |-> c,
               raised |-> outcome.kind = "raise",
               result |-> to_dict(outcome),
               spawned |-> IF p = NoProc THEN 0 ELSE 1,
               child_alive |-> child_alive,
               overdue |-> overdue,
               exit |-> exit,
               steps |-> log,
               operation |-> execute_operation_try(
                                 handle_execute(outcome.kind = "raise", to_dict(outcome)))]
    /\ escaped' = (escaped \/ outcome.kind = "raise")

\* call i suspends in communicate() with its child running
Suspends(i, language, c) ==
    /\ pc' = [pc EXCEPT ![i] = "await"]
    /\ lang' = [lang EXCEPT ![i] = language]
    /\ code' = [code EXCEPT ![i] = c]
    /\ steps' = [steps EXCEPT ![i] = runner_begins(dispatch(language))]
    /\ proc' = [proc EXCEPT ![i] = Running]
    /\ ret' = NoRet
    /\ UNCHANGED escaped

\* _execute_python up to its first suspension
execute_python(i, c, language) ==
    IF code_executor_dir \notin disk
    THEN \* write_text raises FileNotFoundError; the finally clause finds no file
         /\ Returns(i, language, c,
                    execute_code_try(Raise("FileNotFoundError", ENOENT)), NoProc, FALSE, FALSE,
                    NoExit, runner_fails_write("python"))
         /\ UNCHANGED <<files, pc, lang, code, steps, proc>>
    ELSE \E forked \in BOOLEAN :
           IF forked
           THEN /\ files' = write_text(files, script_py, c)
                /\ Suspends(i, language, c)
           ELSE \* create_subprocess_exec raises OSError
                /\ files' = finally_unlink(write_text(files, script_py, c), script_py)
                /\ Returns(i, language, c,
                           execute_code_try(Raise("OSError", EAGAIN)), NoProc, FALSE, FALSE,
                           NoExit, runner_fails_spawn("python"))
                /\ UNCHANGED <<pc, lang, code, steps, proc>>

\* _execute_javascript up to its first suspension
execute_javascript(i, c, language) ==
    IF code_executor_dir \notin disk
    THEN \* write_text raises FileNotFoundError, which the runner's except catches
         /\ Returns(i, language, c,
                    execute_code_try(ExecutionResult(FALSE, <<>>, "Node.js is not installed")),
                    NoProc, FALSE, FALSE, NoExit, runner_fails_write("javascript"))
         /\ UNCHANGED <<files, pc, lang, code, steps, proc>>
    ELSE IF ~node
    THEN \* create_subprocess_exec raises FileNotFoundError
         /\ files' = finally_unlink(write_text(files, script_js, c), script_js)
         /\ Returns(i, language, c,
                    execute_code_try(ExecutionResult(FALSE, <<>>, "Node.js is not installed")),
                    NoProc, FALSE, FALSE, NoExit, runner_fails_spawn("javascript"))
         /\ UNCHANGED <<pc, lang, code, steps, proc>>
    ELSE \E forked \in BOOLEAN :
           IF forked
           THEN /\ files' = write_text(files, script_js, c)
                /\ Suspends(i, language, c)
           ELSE /\ files' = finally_unlink(write_text(files, script_js, c), script_js)
                /\ Returns(i, language, c,
                           execute_code_try(Raise("OSError", EAGAIN)), NoProc, FALSE, FALSE,
                           NoExit, runner_fails_spawn("javascript"))
                /\ UNCHANGED <<pc, lang, code, steps, proc>>

\* _execute_shell up to its first suspension
execute_shell(i, c, language) ==
    /\ UNCHANGED files
    /\ IF unsafe(c)
       THEN /\ Returns(i, language, c,
                       execute_code_try(ExecutionResult(FALSE, <<>>, "Unsafe command detected")),
                       NoProc, FALSE, FALSE, NoExit, <<"rejected">>)
            /\ UNCHANGED <<pc, lang, code, steps, proc>>
       ELSE \E forked \in BOOLEAN :
              IF forked
              THEN Suspends(i, language, c)
              ELSE /\ Returns(i, language, c,
                              execute_code_try(Raise("OSError", EAGAIN)), NoProc, FALSE, FALSE,
                              NoExit, runner_fails_spawn("shell"))
                   /\ UNCHANGED <<pc, lang, code, steps, proc>>

\* Executor.execute_code -> CodeExecutor.execute_code: look the runner up under
\* the lower-cased language and run it until it suspends or returns
Execute(i, c, language) ==
    /\ pc[i] = "idle"
    /\ LET runner == dispatch(language) IN
         IF runner = "none"
         THEN /\ Returns(i, language, c,
                         ExecutionResult(FALSE, <<>>, "Unsupported language: " \o language),
                         NoProc, FALSE, FALSE, NoExit, <<>>)
              /\ UNCHANGED <<files, pc, lang, code, steps, proc>>
         ELSE IF runner = "python" THEN execute_python(i, c, language)
         ELSE IF runner = "javascript" THEN execute_javascript(i, c, language)
         ELSE execute_shell(i, c, language)
    /\ UNCHANGED <<code_executor_dir, workspace_dir, disk, node, shutdown, inst>>

(* ------------------------- the child processes ------------------------- *)
\* the interpreter child of a python or javascript call opens the path it was
\* given and reads whatever is there at that moment
ChildReads(i) ==
    /\ pc[i] = "await"
    /\ dispatch(lang[i]) \in {"python", "javascript"}
    /\ proc[i].alive
    /\ proc[i].ran = Unread
    /\ LET f == temp_file(dispatch(lang[i])) IN
         proc' = [proc EXCEPT ![i].ran = IF files[f] = Absent THEN Missing ELSE files[f]]
    /\ UNCHANGED <<code_executor_dir, workspace_dir, disk, files, node, shutdown,
                   pc, lang, code, steps, inst, escaped>>
    /\ ret' = NoRet

\* the child exits by itself: an interpreter after it has opened its script,
\* a shell at any time
ChildExits(i) ==
    /\ pc[i] = "await"
    /\ proc[i].alive
    /\ dispatch(lang[i]) = "shell" \/ proc[i].ran # Unread
    /\ proc' = [proc EXCEPT ![i].alive = FALSE]
    /\ UNCHANGED <<code_executor_dir, workspace_dir, disk, files, node, shutdown,
                   pc, lang, code, steps, inst, escaped>>
    /\ ret' = NoRet

\* call i is over: its slot is free for the next execute()
Leaves(i) ==
    /\ pc' = [pc EXCEPT ![i] = "idle"]
    /\ lang' = [lang EXCEPT ![i] = "none"]
    /\ code' = [code EXCEPT ![i] = <<>>]
    /\ steps' = [steps EXCEPT ![i] = <<>>]
    /\ proc' = [proc EXCEPT ![i] = NoProc]

\* The python runner waits under asyncio.wait_for(..., timeout=MAX_TIME): when
\* MAX_TIME seconds have passed and the child is still running, TimeoutError,
\* process.terminate() (a SIGTERM, not waited for: the child may be gone or not
\* when the call returns), the timeout result, the finally clause.  The
\* javascript and shell runners wait with no deadline.
DeadlineExpires(i) ==
    /\ pc[i] = "await"
    /\ dispatch(lang[i]) = "python"
    /\ proc[i].alive
    /\ \E still_alive \in BOOLEAN :
         Returns(i, lang[i], code[i],
                 execute_code_try(ExecutionResult(FALSE, <<>>, "Execution timeout")),
                 proc[i], TRUE, still_alive, NoExit, steps[i] \o runner_ends("python"))
    /\ files' = finally_unlink(files, script_py)
    /\ Leaves(i)
    /\ UNCHANGED <<code_executor_dir, workspace_dir, disk, node, shutdown, inst>>

\* communicate() returns for call i: the result is built from the exit code,
\* stdout and stderr of the child, then the finally clause runs.  A program
\* prints its own text; an interpreter that found no script prints nothing,
\* complains on stderr and exits with 2.
Complete(i) ==
    /\ pc[i] = "await"
    /\ ~proc[i].alive
    /\ LET runner == dispatch(lang[i]) IN
       /\ \E rc \in ExitCodes \cup {2}, stderr \in StderrTexts \cup {"can't open file"} :
            /\ IF runner # "shell" /\ proc[i].ran = Missing
               THEN rc = 2 /\ stderr = "can't open file"
               ELSE rc \in ExitCodes /\ stderr \in StderrTexts
            /\ LET stdout == IF runner = "shell" THEN code[i]
                             ELSE IF proc[i].ran = Missing THEN <<>> ELSE proc[i].ran
               IN Returns(i, lang[i], code[i],
                          execute_code_try(normal_result(rc, stdout, stderr)),
                          proc[i], FALSE, FALSE, Exit(rc, stdout, stderr),
                          steps[i] \o runner_ends(runner))
       /\ files' = IF runner = "shell" THEN files
                   ELSE finally_unlink(files, temp_file(runner))
    /\ Leaves(i)
    /\ UNCHANGED <<code_executor_dir, workspace_dir, disk, node, shutdown, inst>>

(* ----------------------------- shutdown -------------------------------- *)
\* shutil.rmtree(d, ignore_errors=True) on an existing directory
rmtree(dirs, d) == dirs \ {d}

\* a cleanup that removes the tree without looking whether it exists and
\* without ignoring errors
cleanup_unguarded(dirs, d) == [disk |-> dirs \ {d}, raised |-> d \notin dirs]

\* Executor.cleanup: if os.path.exists(self.workspace_dir): rmtree(...)
\* gives the directories left and whether an exception leaves the method
cleanup(dirs, d) ==
    IF d \in dirs
    THEN [disk |-> rmtree(dirs, d), raised |-> FALSE]
    ELSE [disk |-> dirs, raised |-> FALSE]

Cleanup ==
    /\ LET after == cleanup(disk, workspace_dir) IN
         /\ disk' = after.disk
         /\ files' = IF code_executor_dir \in disk /\ code_executor_dir \notin after.disk
                     THEN [f \in FileNames |-> Absent]
                     ELSE files
         /\ escaped' = (escaped \/ after.raised)
    /\ shutdown' = TRUE
    /\ ret' = [op |-> "cleanup", repeated |-> shutdown]
    /\ UNCHANGED <<code_executor_dir, workspace_dir, node, pc, lang, code, steps, proc, inst>>

(* ------------------------ install_dependencies ------------------------- *)
\* DependencyManager.package_managers (its keys)
package_managers == {"python", "javascript"}

InstallReturns(packages, language, result, spawned) ==
    /\ ret' = [op |-> "install", language |-> language, code |-> packages,
               raised |-> FALSE, result |-> result, spawned |-> spawned,
               child_alive |-> FALSE, overdue |-> FALSE,
               operation |-> execute_operation_try(handle_install(result))]
    /\ UNCHANGED escaped

\* install_dependencies up to its suspension in communicate()
Install(packages, language) ==
    /\ inst = NoInst
    /\ IF packages = <<>>
       THEN /\ InstallReturns(packages, language,
                              [success |-> TRUE, output |-> "No packages to install"], 0)
            /\ UNCHANGED inst
       ELSE IF language \notin package_managers
       THEN /\ InstallReturns(packages, language,
                              [success |-> FALSE,
                               output |-> "Unsupported language: " \o language], 0)
            /\ UNCHANGED inst
       ELSE \E forked \in BOOLEAN :
              IF forked
              THEN /\ inst' = Installer(packages, language)
                   /\ ret' = NoRet
                   /\ UNCHANGED escaped
              ELSE \* the package manager could not be spawned: except Exception
                   /\ InstallReturns(packages, language,
                                     [success |-> FALSE, output |-> "", error |-> ENOENT,
                                      installed |-> <<>>], 0)
                   /\ UNCHANGED inst
    /\ UNCHANGED <<code_executor_dir, workspace_dir, disk, files, node, shutdown,
                   pc, lang, code, steps, proc>>

\* the package manager exits
InstallerExits ==
    /\ inst # NoInst
    /\ inst.alive
    /\ inst' = [inst EXCEPT !.alive = FALSE]
    /\ UNCHANGED <<code_executor_dir, workspace_dir, disk, files, node, shutdown,
                   pc, lang, code, steps, proc, escaped>>
    /\ ret' = NoRet

\* communicate() returns in install_dependencies
InstallCompletes ==
    /\ inst # NoInst
    /\ ~inst.alive
    /\ \E rc \in ExitCodes, stderr \in StderrTexts :
         InstallReturns(inst.packages, inst.language,
                        [success |-> rc = 0, output |-> "transcript",
                         error |-> IF stderr # "" THEN stderr ELSE None,
                         installed |-> IF rc = 0 THEN inst.packages ELSE <<>>], 1)
    /\ inst' = NoInst
    /\ UNCHANGED <<code_executor_dir, workspace_dir, disk, files, node, shutdown,
                   pc, lang, code, steps, proc>>

(* --------------------------- specifications ---------------------------- *)
Next ==
    \/ \E i \in Calls, c \in Sources, language \in supported_languages : Execute(i, c, language)
    \/ \E i \in Calls : ChildReads(i)
    \/ \E i \in Calls : ChildExits(i)
    \/ \E i \in Calls : DeadlineExpires(i)
    \/ \E i \in Calls : Complete(i)
    \/ Cleanup

\* the execution engine under concurrent execute() calls and shutdown
Spec == Init /\ [][Next]_vars

\* the facade used by one caller at a time: execute, install, shutdown
FacadeNext ==
    \/ \E c \in Sources, language \in LanguageValues : Execute(1, c, language)
    \/ ChildReads(1)
    \/ ChildExits(1)
    \/ DeadlineExpires(1)
    \/ Complete(1)
    \/ Cleanup
    \/ \E packages \in PackageLists, language \in InstallLanguages : Install(packages, language)
    \/ InstallerExits
    \/ InstallCompletes
    \/ \E kind \in PromptKinds : Prompt(kind)

FacadeSpec == Init /\ [][FacadeNext]_vars

\* the same, with what the event loop guarantees: a call whose communicate()
\* has returned, or whose deadline has expired, is resumed.  A child is under
\* no obligation to exit.
FairSpec ==
    Spec /\ \A i \in Calls : WF_vars(Complete(i)) /\ WF_vars(DeadlineExpires(i))

\* one caller issuing shell requests, over every command text
ShellNext ==
    \/ \E c \in Commands : Execute(1, c, "shell")
    \/ ChildExits(1)
    \/ Complete(1)

ShellSpec == Init /\ [][ShellNext]_vars

\* callers that never have two calls of one language in flight: a call is
\* issued only in a language no suspended call is running
MixedExecute(i, c, language) ==
    /\ \A j \in Calls \ {i} : pc[j] = "await" => dispatch(lang[j]) # dispatch(language)
    /\ Execute(i, c, language)

\* concurrent execute() calls of pairwise different languages
MixedNext ==
    \/ \E i \in Calls, c \in Sources, language \in supported_languages :
          MixedExecute(i, c, language)
    \/ \E i \in Calls : ChildReads(i)
    \/ \E i \in Calls : ChildExits(i)
    \/ \E i \in Calls : DeadlineExpires(i)
    \/ \E i \in Calls : Complete(i)

MixedSpec == Init /\ [][MixedNext]_vars

(* ------------------------------ claims --------------------------------- *)
\* the calls between their write step and their cleanup step, with a source file
InFlight(i) == pc[i] = "await" /\ dispatch(lang[i]) \in {"python", "javascript"}

\* the path call i wrote its source to
PathOf(i) == <<code_executor_dir, temp_file(dispatch(lang[i]))>>

\* the last step returned the result of an execute() call
Returned == ret.op = "execute"

\* C1: no two execute() calls in flight at the same time hold the same
\* source-file path, two calls of the same language included.
C1_ExclusivePaths ==
    \A i \in Calls, j \in Calls :
        (i # j /\ InFlight(i) /\ InFlight(j)) => PathOf(i) # PathOf(j)

\* C2: with python calls running concurrently, the text the child of a call
\* reads from its source file is the text this call wrote, never the text of
\* another call, and the output a call returns is the output of its own code.
C2_ChildReadsOwnSource ==
    /\ \A i \in Calls :
          (pc[i] = "await" /\ dispatch(lang[i]) = "python"
              /\ proc[i].ran \notin {Unread, Missing})
              => proc[i].ran = code[i]
    /\ (Returned /\ dispatch(ret.language) = "python" /\ ret.spawned = 1
            /\ ret.result.output # <<>>)
           => ret.result.output = ret.code

\* C3: for every runner, a call that waits for its child eventually returns,
\* whether the child exits or not: the deadline ends the wait of a call whose
\* child never exits.
C3_DeadlineEndsEveryCall ==
    \A i \in Calls : (pc[i] = "await") ~> (pc[i] = "idle")

\* C4: when a call returns with the error Execution timeout, its child is no
\* longer running.
C4_TimeoutLeavesNoChild ==
    (Returned /\ ret.result.error = "Execution timeout") => ~ret.child_alive

\* [a, b] is a token of c: a maximal run of non-whitespace characters
IsToken(c, a, b) ==
    /\ 1 <= a /\ a <= b /\ b <= Len(c)
    /\ \A k \in a..b : c[k] \notin Whitespace
    /\ a = 1 \/ c[a - 1] \in Whitespace
    /\ b = Len(c) \/ c[b + 1] \in Whitespace

HasDisallowedToken(c) ==
    \E a \in 1..Len(c), b \in 1..Len(c) :
        IsToken(c, a, b) /\ SubSeq(c, a, b) \notin allowed_commands

HasAllowedToken(c) ==
    \E a \in 1..Len(c), b \in 1..Len(c) :
        IsToken(c, a, b) /\ SubSeq(c, a, b) \in allowed_commands

\* C5: a shell command with at least one token outside the allow-list is
\* answered with success=false and Unsafe command detected and spawns nothing;
\* the shell runner has a child only when every token is in the allow-list.
C5_UnsafeShellRejected ==
    /\ (Returned /\ lower(ret.language) = "shell" /\ HasDisallowedToken(ret.code))
           => /\ ret.result.success = FALSE
              /\ ret.result.error = "Unsafe command detected"
              /\ ret.spawned = 0
    /\ \A i \in Calls :
           (pc[i] = "await" /\ lower(lang[i]) = "shell") => ~HasDisallowedToken(code[i])

\* a command with an allowed and a disallowed token has been rejected
C5_Witness ==
    /\ Returned /\ lower(ret.language) = "shell"
    /\ HasDisallowedToken(ret.code) /\ HasAllowedToken(ret.code)
    /\ ret.result.error = "Unsafe command detected"

\* C6: whenever no invocation is in flight, the workspace holds no source
\* file left behind by an invocation.
C6_NoSourceFileLeft ==
    (\A i \in Calls : pc[i] # "await") => \A f \in FileNames : files[f] = Absent

\* a python call has run into its deadline and returned, nothing is in flight
C6_Witness ==
    /\ Returned /\ ret.result.error = "Execution timeout"
    /\ \A i \in Calls : pc[i] # "await"
    /\ code_executor_dir \in disk

\* C7: the directory the runners write into is the directory cleanup()
\* removes, and after cleanup() no directory the engine created is on disk.
C7_OneWorkspaceRemoved ==
    shutdown =>
        /\ code_executor_dir \notin disk
        /\ disk \cap {"mkdtemp1", "mkdtemp2"} = {}

\* C8: cleanup() never raises, and a second or later cleanup() leaves the
\* state as the first one left it.
C8_CleanupIdempotent ==
    [][Cleanup => (/\ escaped' = escaped
                   /\ shutdown => UNCHANGED <<disk, files, pc, lang, code, steps, proc, inst>>)]_vars

\* cleanup() has been called at least twice
C8_Witness == ret.op = "cleanup" /\ ret.repeated /\ ~escaped

\* C9 as stated: a language that is not literally one of python, javascript,
\* shell is answered with a failed result naming it; no file is written, no
\* child spawned, no call is dispatched under it.
C9_UnsupportedRejected_Original ==
    [][/\ (ret'.op = "execute" /\ ret'.language \notin {"python", "javascript", "shell"})
           => /\ ret'.result.success = FALSE
              /\ ret'.result.error = "Unsupported language: " \o ret'.language
              /\ ret'.spawned = 0
              /\ UNCHANGED <<files, proc, pc>>
       /\ \A i \in Calls :
             pc'[i] = "await" => lang'[i] \in {"python", "javascript", "shell"}]_vars

\* C9 amended: a language whose lower-cased form is not one of python,
\* javascript, shell is answered with a failed result naming it; no file is
\* written, no child spawned, no call is dispatched under it.
C9_UnsupportedRejected ==
    [][/\ (ret'.op = "execute" /\ lower(ret'.language) \notin {"python", "javascript", "shell"})
           => /\ ret'.result.success = FALSE
              /\ ret'.result.error = "Unsupported language: " \o ret'.language
              /\ ret'.spawned = 0
              /\ UNCHANGED <<files, proc, pc>>
       /\ \A i \in Calls :
             pc'[i] = "await" => lower(lang'[i]) \in {"python", "javascript", "shell"}]_vars

\* an unknown language has been rejected
C9_Witness ==
    /\ Returned /\ ret.language = "ruby"
    /\ ret.result.error = "Unsupported language: ruby"
    /\ ret.spawned = 0

\* the faults of an execute() call: nothing was spawned (rejection, write
\* failure, missing runtime, spawn failure) or the python deadline expired
Faulted == ret.spawned = 0 \/ (dispatch(ret.language) = "python" /\ ret.overdue)

\* C10: no exception leaves the engine; an execute() that hit a fault returns
\* a map with success=false and a populated error, also after shutdown; so
\* does an install_dependencies() whose package manager could not be spawned.
C10_FaultsBecomeValues ==
    /\ ~escaped
    /\ Returned => ~ret.raised
    /\ (Returned /\ Faulted)
           => (ret.result.success = FALSE /\ ret.result.error \notin {None, ""})
    /\ (ret.op = "install" /\ ret.code # <<>> /\ ret.language \in {"python", "javascript"}
           /\ ret.spawned = 0)
           => /\ ret.result.success = FALSE
              /\ "error" \in DOMAIN ret.result
              /\ ret.result.error \notin {None, ""}

\* after shutdown removed the workspace, a python call failed to write its file
C10_Witness ==
    /\ Returned /\ shutdown /\ dispatch(ret.language) = "python"
    /\ code_executor_dir \notin disk
    /\ ret.result.success = FALSE /\ ret.result.error = ENOENT

\* C11: every child the engine spawns, for a runner or for the dependency
\* installer, has had the resource limits applied exactly once.
C11_EveryChildLimited ==
    /\ \A i \in Calls : proc[i] # NoProc => proc[i].limits = 1
    /\ inst # NoInst => inst.limits = 1

\* the last step returned the result of an install_dependencies() call
Installed == ret.op = "install"

\* C12: install_dependencies with an empty package list answers, for every
\* language, success=true with an installed entry that is empty, and spawns
\* nothing.
C12_EmptyInstall ==
    (Installed /\ ret.code = <<>>)
        => /\ ret.result.success = TRUE
           /\ "installed" \in DOMAIN ret.result
           /\ ret.result.installed = <<>>
           /\ ret.spawned = 0

\* C13: the result of install_dependencies on a non-empty package list has an
\* installed entry, which is the whole input list when success=true and empty
\* when success=false.
C13_InstalledAllOrNothing ==
    (Installed /\ ret.code # <<>>)
        => /\ "installed" \in DOMAIN ret.result
           /\ ret.result.success = TRUE => ret.result.installed = ret.code
           /\ ret.result.success = FALSE => ret.result.installed = <<>>

\* C14: install_dependencies with a non-empty package list and a language
\* that has no package manager answers success=false with a message in the
\* error field, reports no installed package and spawns nothing.
C14_UnknownInstallLanguage ==
    (Installed /\ ret.code # <<>> /\ ret.language \notin {"python", "javascript"})
        => /\ ret.result.success = FALSE
           /\ "error" \in DOMAIN ret.result
           /\ ret.result.error \notin {None, ""}
           /\ "installed" \in DOMAIN ret.result => ret.result.installed = <<>>
           /\ ret.spawned = 0

\* the last step returned from execute() after the child had exited by itself
NormalExit == Returned /\ ret.exit # NoExit

\* the stderr text the call captured, if it captured any
CapturedStderr == IF ret.exit = NoExit THEN "" ELSE ret.exit.stderr

\* C15: every result of execute() has its error populated if and only if
\* success is false or the stderr of the child was not empty.
C15_ErrorPopulatedIff ==
    Returned
        => ((ret.result.error # None)
               <=> (ret.result.success = FALSE \/ CapturedStderr # ""))

\* C16: a javascript execute() answers Node.js is not installed exactly when
\* the node binary is absent from the host, and for no other fault.
C16_NodeMissingExactly ==
    (Returned /\ dispatch(ret.language) = "javascript")
        => ((ret.result.error = "Node.js is not installed") <=> ~node)

\* step a occurs before step b wherever both occur in a log
Before(log, a, b) ==
    \A j, k \in 1..Len(log) : (log[j] = a /\ log[k] = b) => j < k

\* the number of times a step occurs in a log
Count(log, a) == Cardinality({j \in 1..Len(log) : log[j] = a})

\* C17: in one python or javascript invocation the steps are write, spawn,
\* await resolved, cleanup in that order: no spawn without an earlier write,
\* no cleanup before the await has resolved, and cleanup is the last step of
\* every returned invocation.
C17_StepsInOrder ==
    /\ \A i \in Calls :
         InFlight(i) => /\ steps[i] = <<"write", "spawn">>
                        /\ proc[i] # NoProc
    /\ (Returned /\ dispatch(ret.language) \in {"python", "javascript"})
          => LET log == ret.steps IN
             /\ Len(log) > 0 /\ log[Len(log)] = "cleanup"
             /\ Count(log, "cleanup") = 1
             /\ Count(log, "spawn") > 0 => Count(log, "write") > 0
             /\ Before(log, "write", "spawn")
             /\ Before(log, "spawn", "resolved")
             /\ Before(log, "resolved", "cleanup")
             /\ (ret.spawned = 1) <=> (Count(log, "spawn") = 1)
             /\ (ret.spawned = 1) <=> (Count(log, "resolved") = 1)

\* a python call and a javascript call that each went through all four steps
C17_Witness ==
    /\ Returned
    /\ dispatch(ret.language) \in {"python", "javascript"}
    /\ ret.steps = <<"write", "spawn", "resolved", "cleanup">>
    /\ ret.overdue = FALSE

\* C18: a suggest, edit or test request calls only the provider and leaves
\* the sandbox as it was, and execute_operation hands back a result for
\* every request: a fault raised by a handler becomes success = false.
C18_DispatcherRouting ==
    [][/\ ret'.op = "operation"
           => /\ ret'.calls = {"provider.generate_response"}
              /\ UNCHANGED <<disk, files, shutdown, pc, lang, code, steps, proc, inst>>
              /\ ret'.operation.raised = FALSE
              /\ ret'.provider_raised => ret'.operation.success = FALSE
       /\ ret'.op \in {"execute", "install"}
           => /\ ret'.operation.raised = FALSE
              /\ ret'.operation.success = ret'.result.success]_vars

\* a prompt request whose provider raised, answered with a failed result
C18_Witness ==
    /\ ret.op = "operation"
    /\ ret.provider_raised
    /\ ret.operation.raised = FALSE
    /\ ret.operation.success = FALSE

\* C19: from the write of its source file until its own cleanup, the file of
\* a python or javascript call exists: no other call removes it.
C19_SourceFileOwned ==
    \A i \in Calls :
        (InFlight(i) /\ code_executor_dir \in disk)
            => files[temp_file(dispatch(lang[i]))] # Absent

\* C20: when the child exits by itself, success is exactly exit code zero and
\* output is the captured stdout, whatever stderr holds; a non-empty stderr
\* is kept in error.
C20_NormalExitResult ==
    NormalExit
        => /\ ret.result.success = (ret.exit.rc = 0)
           /\ ret.result.output = ret.exit.stdout
           /\ ret.exit.stderr # "" => ret.result.error = ret.exit.stderr

\* a child that exited with code zero after writing to stderr
C20_Witness ==
    /\ NormalExit
    /\ ret.exit.rc = 0
    /\ ret.exit.stderr # ""
    /\ ret.result.success = TRUE
    /\ ret.result.error = ret.exit.stderr

\* C21: calls of different languages in flight together use pairwise distinct
\* paths, so from its write to its own cleanup the file of a python or
\* javascript call keeps the text this call wrote, whatever the other calls
\* write or clean up, its child reads that text, and a shell call that is
\* rejected or completes leaves the files and directories as they were.
C21_NoCrossLanguageInterference ==
    [][/\ \A i \in Calls, j \in Calls :
            (i # j /\ InFlight(i) /\ InFlight(j)) => PathOf(i) # PathOf(j)
       /\ \A i \in Calls :
            (InFlight(i) /\ InFlight(i)')
                => /\ files[temp_file(dispatch(lang[i]))] = code[i]
                   /\ files'[temp_file(dispatch(lang[i]))] = code[i]
                   /\ proc'[i].ran \in {Unread, code[i]}
       /\ (ret'.op = "execute" /\ dispatch(ret'.language) = "shell")
            => UNCHANGED <<files, disk>>]_vars

\* a javascript call has run its cleanup, or a shell call has completed,
\* while a python call is in flight with its file as it wrote it
C21_Witness ==
    /\ Returned
    /\ dispatch(ret.language) \in {"javascript", "shell"}
    /\ ret.spawned = 1
    /\ \E i \in Calls :
         /\ InFlight(i)
         /\ dispatch(lang[i]) = "python"
         /\ files[script_py] = code[i]
         /\ code[i] # ret.code

====
